---- MODULE Spec2Model ----
(***************************************************************************)
(* Gaze-up: head-tracked cursor, blink and dwell gestures.                  *)
(*                                                                          *)
(* The model follows src/services/visionService.ts (VisionService: the      *)
(* per-frame callback predictWebcam) and src/unnamed/part_000 (App: the     *)
(* result callback processVisionResult, the double-blink timer, the status  *)
(* and active-app state with the refs that mirror them).                    *)
(*                                                                          *)
(* Numbers.  Normalised coordinates and the eye aspect ratio are fixed      *)
(* point with three decimals: the integer n stands for n/1000, so One is    *)
(* 1.0, DWELL_RADIUS 40 is 0.04 and BLINK_THRESHOLD 450 is 0.45.  Products   *)
(* and quotients are truncated toward zero to that grid.  The only IEEE     *)
(* values kept besides the grid are the ones a division by zero makes:      *)
(* +Infinity, -Infinity and NaN.  Times are integer milliseconds.           *)
(*                                                                          *)
(* Time.  The program uses performance.now() only in differences, so the    *)
(* model measures time from the current instant: Now is 0, a frame runs     *)
(* TickMs later, at Now + TickMs, and when it has run every stored time     *)
(* (start times, timer deadlines) is moved back by TickMs, which makes the  *)
(* frame's instant the new 0.  A stored time older than Old stays at -Old:  *)
(* every duration the program compares is below Old.  A setTimeout callback *)
(* runs at the tick its delay ends: time does not advance past a due timer, *)
(* but a frame whose time equals the deadline may still run before it.      *)
(* React runs the effects that copy state into refs in a task of its own    *)
(* after the commit: other callbacks already due may run before that task,  *)
(* but no animation frame passes before it.                                 *)
(*                                                                          *)
(* Components.  Spec is the gesture layer: in it the calibration screen and *)
(* the app window keep their initial state.  The calibration screen         *)
(* (src/components/CalibrationScreen.tsx) is specified in SpecCalib, the    *)
(* calibration round trip in SpecRound, the app window with its content     *)
(* requests (src/unnamed/part_002) in SpecContent and a restart of the      *)
(* camera session in SpecSession; all of them share the variables of Spec.  *)
(* SpecFilter drives the cursor filter through its three gain regimes,      *)
(* SpecPreview the uncalibrated preview of the calibration screen, and      *)
(* SpecWait lets time pass on the start screen before the first frame.      *)
(* The settle timeout of the calibration screen and the completion of a     *)
(* content request carry no time: they run at any later step.               *)
(***************************************************************************)
EXTENDS Integers, Sequences, FiniteSets, TLC

\* ------------------------------------------------------------------ bounds

\* Accepted blinks in one blink window.
MaxBlinks == 3

\* Input events in a run: a frame in which the eyes close, a frame whose raw
\* nose position differs from the previous frame's, a frame without a face,
\* a click on Recalibrate.
MaxEvents == 3

\* Calibration screens mounted in a run.
MaxCalibrations == 2

\* Content requests issued in a run.
MaxLoads == 2

\* ------------------------------------------------------- program constants

One == 1000
NaN == -1000000
INF == 1000000000

BLINK_THRESHOLD == 450
BLINK_MIN_DURATION == 100
BLINK_MAX_DURATION == 300

JITTER_THRESHOLD == 2
IDLE_SMOOTHING == 20
ACTIVE_SMOOTHING == 100
MAX_SMOOTHING == 500
DISTANCE_GAIN == 5

DWELL_RADIUS == 40
DWELL_DURATION == 600

DOUBLE_BLINK_WINDOW == 600

AMPLIFY_NUM == 5
AMPLIFY_DEN == 2

\* The time between two animation frames (ms).  It divides the blink window
\* and the dwell duration, so a deadline falls on a frame instant: the frame
\* and the timer callback of one instant run in either order.
TickMs == 75

\* performance.now() at the current instant, and the oldest times kept
\* apart: a dwell past its duration, a closure past the longest blink.
Now == 0
Old == DWELL_DURATION + TickMs
OldBlink == BLINK_MAX_DURATION + TickMs

NoTime == -1
NoTimer == -1
NoApp == "null"
NoPoint == [x |-> -1, y |-> -1]

Apps == {"mail", "weather", "assistant", "system"}

\* ------------------------------------------------------------- arithmetic

Abs(a) == IF a < 0 THEN -a ELSE a

Min(a, b) == IF a < b THEN a ELSE b

Max(a, b) == IF a > b THEN a ELSE b

\* a / b for b # 0, truncated toward zero.
TruncDiv(a, b) ==
  LET q == Abs(a) \div Abs(b)
  IN  IF (a < 0) = (b < 0) THEN q ELSE -q

RECURSIVE IsqrtBetween(_, _, _)
IsqrtBetween(n, lo, hi) ==
  IF lo >= hi THEN lo
  ELSE LET mid == (lo + hi + 1) \div 2
       IN  IF mid * mid <= n THEN IsqrtBetween(n, mid, hi)
           ELSE IsqrtBetween(n, lo, mid - 1)

\* floor(sqrt(n)) for 0 <= n <= 4 * One * One.
Isqrt(n) == IsqrtBetween(n, 0, 2 * One)

\* JavaScript number division: x/0 is +-Infinity, 0/0 is NaN.
JsDiv(num, den) ==
  IF num = NaN \/ den = NaN THEN NaN
  ELSE IF den = 0 THEN (IF num > 0 THEN INF ELSE IF num < 0 THEN -INF ELSE NaN)
  ELSE TruncDiv(One * num, den)

\* Math.max(0, Math.min(1, v)): NaN stays NaN.
Clamp01(v) == IF v = NaN THEN NaN ELSE Max(0, Min(One, v))

\* --------------------------------------------------------------- mapping

NoCalibration == [set |-> FALSE, xs |-> 0, xe |-> 0, ys |-> 0, ye |-> 0]

Calibration(xs, xe, ys, ye) == [set |-> TRUE, xs |-> xs, xe |-> xe, ys |-> ys, ye |-> ye]

\* Uncalibrated: amplify the deviation from 0.5 by 2.5, clamp, mirror X.
FallbackTarget(nose) ==
  LET amplifiedX == (One \div 2) + TruncDiv((nose.x - (One \div 2)) * AMPLIFY_NUM, AMPLIFY_DEN)
      amplifiedY == (One \div 2) + TruncDiv((nose.y - (One \div 2)) * AMPLIFY_NUM, AMPLIFY_DEN)
  IN  [x |-> One - Max(0, Min(One, amplifiedX)), y |-> Max(0, Min(One, amplifiedY))]

\* Calibrated: screen = (raw - start) / (end - start), no guard on end = start.
CalibratedTarget(cal, nose) ==
  [x |-> JsDiv(nose.x - cal.xs, cal.xe - cal.xs),
   y |-> JsDiv(nose.y - cal.ys, cal.ye - cal.ys)]

\* A variant of the mapper that mirrors X in calibrated mode too, as the
\* fallback rule does.
MapToScreenMirrorX(cal, nose) ==
  LET t == IF cal.set THEN CalibratedTarget(cal, nose) ELSE FallbackTarget(nose)
  IN  [x |-> IF cal.set /\ Clamp01(t.x) # NaN THEN One - Clamp01(t.x) ELSE Clamp01(t.x),
       y |-> Clamp01(t.y)]

\* Step 2 of predictWebcam with the final clamp to the screen.
MapToScreen(cal, nose) ==
  LET t == IF cal.set THEN CalibratedTarget(cal, nose) ELSE FallbackTarget(nose)
  IN  [x |-> Clamp01(t.x), y |-> Clamp01(t.y)]

\* ------------------------------------------------------------- smoothing

\* dx*dx + dy*dy, NaN when a coordinate is NaN.
Dist2(ax, ay, bx, by) ==
  IF ax = NaN \/ ay = NaN \/ bx = NaN \/ by = NaN THEN NaN
  ELSE (ax - bx) * (ax - bx) + (ay - by) * (ay - by)

\* A variant of the smoothing factor without the upper limit.
AlphaUncapped(d2) ==
  IF d2 = NaN THEN NaN
  ELSE IF d2 < JITTER_THRESHOLD * JITTER_THRESHOLD THEN IDLE_SMOOTHING
  ELSE ACTIVE_SMOOTHING + Isqrt(d2) * DISTANCE_GAIN

\* The smoothing factor in 1/1000 for a squared distance d2; NaN < t is false,
\* so a NaN distance takes the dynamic branch and alpha is NaN.
Alpha(d2) ==
  IF d2 = NaN THEN NaN
  ELSE IF d2 < JITTER_THRESHOLD * JITTER_THRESHOLD THEN IDLE_SMOOTHING
  ELSE Min(ACTIVE_SMOOTHING + Isqrt(d2) * DISTANCE_GAIN, MAX_SMOOTHING)

\* cursor += d * alpha on one axis.
SmoothAxis(cur, target, alpha) ==
  IF cur = NaN \/ target = NaN \/ alpha = NaN THEN NaN
  ELSE cur + TruncDiv((target - cur) * alpha, One)

\* Step 3 of predictWebcam.
Smooth(cx, cy, target) ==
  LET alpha == Alpha(Dist2(target.x, target.y, cx, cy))
  IN  [x |-> SmoothAxis(cx, target.x, alpha), y |-> SmoothAxis(cy, target.y, alpha)]

\* ------------------------------------------------------------ detectors

\* A variant of the blink state machine that takes every closed frame for
\* the onset of the closure.
BlinkStepRestart(start, ear, t) ==
  LET isBlinking == ear < BLINK_THRESHOLD
  IN  IF isBlinking
      THEN [isBlinking |-> TRUE, didBlink |-> FALSE, start |-> t]
      ELSE IF start # NoTime
           THEN [isBlinking |-> FALSE,
                 didBlink |-> (t - start >= BLINK_MIN_DURATION /\ t - start <= BLINK_MAX_DURATION),
                 start |-> NoTime]
           ELSE [isBlinking |-> FALSE, didBlink |-> FALSE, start |-> NoTime]

\* A variant of the blink state machine whose upper bound is strict: a
\* closure of exactly BLINK_MAX_DURATION is not a blink.
BlinkStepStrictMax(start, ear, t) ==
  LET isBlinking == ear < BLINK_THRESHOLD
  IN  IF isBlinking
      THEN [isBlinking |-> TRUE, didBlink |-> FALSE,
            start |-> IF start = NoTime THEN t ELSE start]
      ELSE IF start # NoTime
           THEN [isBlinking |-> FALSE,
                 didBlink |-> (t - start >= BLINK_MIN_DURATION /\ t - start < BLINK_MAX_DURATION),
                 start |-> NoTime]
           ELSE [isBlinking |-> FALSE, didBlink |-> FALSE, start |-> NoTime]

\* Step 4 of predictWebcam: the blink state machine on the averaged EAR.
\* Returns the new blinkStartTime and the didBlink flag.
BlinkStep(start, ear, t) ==
  LET isBlinking == ear < BLINK_THRESHOLD
  IN  IF isBlinking
      THEN [isBlinking |-> TRUE, didBlink |-> FALSE,
            start |-> IF start = NoTime THEN t ELSE start]
      ELSE IF start # NoTime
           THEN [isBlinking |-> FALSE,
                 didBlink |-> (t - start >= BLINK_MIN_DURATION /\ t - start <= BLINK_MAX_DURATION),
                 start |-> NoTime]
           ELSE [isBlinking |-> FALSE, didBlink |-> FALSE, start |-> NoTime]

\* dwellDist > DWELL_RADIUS; a NaN distance compares false.
OutsideRadius(cx, cy, anchor) ==
  LET d2 == Dist2(cx, cy, anchor.x, anchor.y)
  IN  d2 # NaN /\ d2 > DWELL_RADIUS * DWELL_RADIUS

\* A variant of the dwell detector that never latches hasTriggeredDwell: it
\* reports a dwell in every frame past the duration.
DwellStepNoLatch(cx, cy, anchor, start, triggered, t) ==
  IF OutsideRadius(cx, cy, anchor)
  THEN [anchor |-> [x |-> cx, y |-> cy], start |-> t, triggered |-> FALSE,
        progress |-> 0, didDwell |-> FALSE, exit |-> TRUE]
  ELSE IF t - start >= DWELL_DURATION
       THEN [anchor |-> anchor, start |-> start, triggered |-> FALSE,
             progress |-> 0, didDwell |-> TRUE, exit |-> FALSE]
       ELSE [anchor |-> anchor, start |-> start, triggered |-> FALSE,
             progress |-> Min(One, TruncDiv((t - start) * One, DWELL_DURATION)),
             didDwell |-> FALSE, exit |-> FALSE]

\* A variant of the dwell detector that moves the anchor on leaving the
\* radius but keeps the dwell timer running.
DwellStepKeepTimer(cx, cy, anchor, start, triggered, t) ==
  IF OutsideRadius(cx, cy, anchor)
  THEN [anchor |-> [x |-> cx, y |-> cy], start |-> start, triggered |-> FALSE,
        progress |-> 0, didDwell |-> FALSE, exit |-> TRUE]
  ELSE IF ~triggered
       THEN LET elapsed == t - start
            IN  IF elapsed >= DWELL_DURATION
                THEN [anchor |-> anchor, start |-> start, triggered |-> TRUE,
                      progress |-> 0, didDwell |-> TRUE, exit |-> FALSE]
                ELSE [anchor |-> anchor, start |-> start, triggered |-> FALSE,
                      progress |-> Min(One, TruncDiv(elapsed * One, DWELL_DURATION)),
                      didDwell |-> FALSE, exit |-> FALSE]
       ELSE [anchor |-> anchor, start |-> start, triggered |-> TRUE,
             progress |-> 0, didDwell |-> FALSE, exit |-> FALSE]

\* Step 5 of predictWebcam: dwell detection on the smoothed cursor.
DwellStep(cx, cy, anchor, start, triggered, t) ==
  IF OutsideRadius(cx, cy, anchor)
  THEN [anchor |-> [x |-> cx, y |-> cy], start |-> t, triggered |-> FALSE,
        progress |-> 0, didDwell |-> FALSE, exit |-> TRUE]
  ELSE IF ~triggered
       THEN LET elapsed == t - start
            IN  IF elapsed >= DWELL_DURATION
                THEN [anchor |-> anchor, start |-> start, triggered |-> TRUE,
                      progress |-> 0, didDwell |-> TRUE, exit |-> FALSE]
                ELSE [anchor |-> anchor, start |-> start, triggered |-> FALSE,
                      progress |-> Min(One, TruncDiv(elapsed * One, DWELL_DURATION)),
                      didDwell |-> FALSE, exit |-> FALSE]
       ELSE [anchor |-> anchor, start |-> start, triggered |-> TRUE,
             progress |-> 0, didDwell |-> FALSE, exit |-> FALSE]

\* Math.abs(c - centre) < half; false for a NaN cursor.
Near(c, centre, half) == c # NaN /\ Abs(c - centre) < half

\* A variant of the hit test that keeps testing the boxes while an app is
\* active.
HitTestWithApp(cx, cy, st, app) ==
  IF st = "ACTIVE"
  THEN IF Near(cx, 600, 80) /\ Near(cy, 700, 100) THEN "system"
       ELSE IF Near(cx, 400, 80) /\ Near(cy, 700, 100) THEN "assistant"
       ELSE IF Near(cx, 600, 80) /\ Near(cy, 500, 100) THEN "weather"
       ELSE IF Near(cx, 400, 80) /\ Near(cy, 500, 100) THEN "mail"
       ELSE NoApp
  ELSE NoApp

\* Step 1 of processVisionResult: the hit boxes; a later match overrides.
HitTest(cx, cy, st, app) ==
  IF st = "ACTIVE" /\ app = NoApp
  THEN IF Near(cx, 600, 80) /\ Near(cy, 700, 100) THEN "system"
       ELSE IF Near(cx, 400, 80) /\ Near(cy, 700, 100) THEN "assistant"
       ELSE IF Near(cx, 600, 80) /\ Near(cy, 500, 100) THEN "weather"
       ELSE IF Near(cx, 400, 80) /\ Near(cy, 500, 100) THEN "mail"
       ELSE NoApp
  ELSE NoApp

\* ---------------------------------------------------------- arbitration

\* Step 2 of processVisionResult: the app a dwell event selects, or NoApp.
DwellSelect(didDwell, st, app, hit) ==
  IF didDwell /\ st # "CALIBRATING" /\ app = NoApp /\ hit # NoApp THEN hit ELSE NoApp

\* A variant of the blink gesture that captures the target at every blink.
BlinkGestureLastHit(count, firstHit, handle, pending, hit, t) ==
  [count    |-> count + 1,
   firstHit |-> hit,
   handle   |-> t + DOUBLE_BLINK_WINDOW,
   pending  |-> ((IF handle # NoTimer THEN pending \ {handle} ELSE pending)
                   \cup {t + DOUBLE_BLINK_WINDOW})]

\* A variant of the blink gesture without the clearTimeout call.
BlinkGestureNoClear(count, firstHit, handle, pending, hit, t) ==
  [count    |-> count + 1,
   firstHit |-> IF count + 1 = 1 THEN hit ELSE firstHit,
   handle   |-> t + DOUBLE_BLINK_WINDOW,
   pending  |-> pending \cup {t + DOUBLE_BLINK_WINDOW}]

\* Step 3 of processVisionResult for an accepted blink at time t: the count,
\* the captured target, the timer handle and the pending timers afterwards.
\* A timer is named by the time it is due.
BlinkGesture(count, firstHit, handle, pending, hit, t) ==
  [count    |-> count + 1,
   firstHit |-> IF count + 1 = 1 THEN hit ELSE firstHit,
   handle   |-> t + DOUBLE_BLINK_WINDOW,
   pending  |-> ((IF handle # NoTimer THEN pending \ {handle} ELSE pending)
                   \cup {t + DOUBLE_BLINK_WINDOW})]

\* A variant of the callback whose single-blink branch lost the negation of
\* "!activeAppRef.current".
ExpiryDecisionActiveOpen(count, app, firstHit) ==
  IF count = 2
  THEN [open |-> NoApp, close |-> app # NoApp]
  ELSE IF count = 1
       THEN [open |-> IF app # NoApp /\ firstHit # NoApp THEN firstHit ELSE NoApp,
             close |-> FALSE]
       ELSE [open |-> NoApp, close |-> FALSE]

\* A variant of the callback whose double-blink branch never closes.
ExpiryDecisionNoClose(count, app, firstHit) ==
  IF count = 1
  THEN [open |-> IF app = NoApp /\ firstHit # NoApp THEN firstHit ELSE NoApp,
        close |-> FALSE]
  ELSE [open |-> NoApp, close |-> FALSE]

\* A variant of the callback that treats every count from two on as a
\* double blink.
ExpiryDecisionAtLeastTwo(count, app, firstHit) ==
  IF count >= 2
  THEN [open |-> NoApp, close |-> app # NoApp]
  ELSE IF count = 1
       THEN [open |-> IF app = NoApp /\ firstHit # NoApp THEN firstHit ELSE NoApp,
             close |-> FALSE]
       ELSE [open |-> NoApp, close |-> FALSE]

\* The body of the setTimeout callback once the count is read: what it does
\* to the active app.
ExpiryDecision(count, app, firstHit) ==
  IF count = 2
  THEN [open |-> NoApp, close |-> app # NoApp]
  ELSE IF count = 1
       THEN [open |-> IF app = NoApp /\ firstHit # NoApp THEN firstHit ELSE NoApp,
             close |-> FALSE]
       ELSE [open |-> NoApp, close |-> FALSE]

\* A variant of the callback that leaves the count as it read it.
CountAfterExpiryKept(count) == count

\* blinkCount after the callback has read it: "blinkCount.current = 0".
CountAfterExpiry(count) == 0

\* ------------------------------------------------------------ calibration

\* A variant that takes the 0.1 and 0.9 marks for the ends of the range.
computeCalibrationNoExtrapolation(points) ==
  Calibration(TruncDiv(points[1].x + points[4].x, 2), TruncDiv(points[2].x + points[3].x, 2),
              TruncDiv(points[1].y + points[2].y, 2), TruncDiv(points[4].y + points[3].y, 2))

\* computeCalibration of the calibration screen: the profile for the four
\* measurements TL, TR, BR, BL, the 0.1 and 0.9 marks extrapolated to 0 and 1.
computeCalibration(points) ==
  LET pTL == points[1]
      pTR == points[2]
      pBR == points[3]
      pBL == points[4]
      rawXLeft   == TruncDiv(pTL.x + pBL.x, 2)
      rawXRight  == TruncDiv(pTR.x + pBR.x, 2)
      rawYTop    == TruncDiv(pTL.y + pTR.y, 2)
      rawYBottom == TruncDiv(pBL.y + pBR.y, 2)
      rangeX == rawXRight - rawXLeft
      rangeY == rawYBottom - rawYTop
      extraX == TruncDiv(TruncDiv(rangeX * 10, 8), 10)
      extraY == TruncDiv(TruncDiv(rangeY * 10, 8), 10)
  IN  Calibration(rawXLeft - extraX, rawXRight + extraX,
                  rawYTop - extraY, rawYBottom + extraY)

\* ------------------------------------------------------------------ state

VARIABLES
  events,             \* input events so far
  stored,             \* localStorage 'gazeos-calibration'
  \* VisionService
  faceLandmarker,     \* initialize() has completed
  video,              \* startCamera() has completed: frames are delivered
  calibration,
  cursorX, cursorY,
  blinkStartTime,
  dwellAnchor, dwellStartTime, hasTriggeredDwell,
  \* App
  status, statusRef,
  rawHead,
  activeApp, activeAppRef,
  firstBlinkHitRef, blinkCount, doubleBlinkTimer,
  timers,             \* the setTimeout callbacks that are scheduled
  \* what the last callback did
  last,               \* the callback that ran last
  result,             \* the last argument of onResult
  fx,                 \* the app effects of the last callback
  \* history of the current blink window and of the detectors
  winFirstHit,        \* hit test of the frame that opened the window
  winOpens,           \* opens since that frame, the expiry's own excluded
  winMoved,           \* a later frame of the window had another hit
  winBlinks,          \* accepted blinks of the window
  expired,            \* a blink window has expired
  lastBlink,          \* time of the last accepted blink
  closedSince,        \* first frame of the current run of closed-eye frames
  lastExit,           \* last frame that left the dwell radius
  lastExitElapsed,    \* the dwell time that frame discarded
  dwellsInStay,       \* dwell events since that frame
  stayStart,          \* first processed frame of the current stay at the anchor
  \* the vision session
  initializing,       \* initialize() of the current VisionService is in flight
  \* CalibrationScreen
  calInst,            \* the mounted instance, 0 when none is mounted
  calMounts,          \* instances mounted so far
  step, isCapturing, measurements,
  progressRef, samplesRef,
  settleTimers,       \* the setTimeout callbacks of startStep that are scheduled
  onCompleteCalls,    \* the calls of onComplete so far
  heldSample,         \* samplesRef starts with the position held at capture start
  \* the app window
  appContent,
  displayedAppId, isWindowVisible,
  visibleFrames,      \* requestAnimationFrame callbacks of the display effect
  requests,           \* the generateAppContent calls so far and their outcomes
  renderError         \* rendering the window has thrown

visionVars == <<faceLandmarker, video, calibration, cursorX, cursorY, blinkStartTime,
                dwellAnchor, dwellStartTime, hasTriggeredDwell>>

appVars == <<status, statusRef, rawHead, activeApp, activeAppRef, firstBlinkHitRef, blinkCount,
             doubleBlinkTimer, timers>>

histVars == <<winFirstHit, winOpens, winMoved, winBlinks, expired, lastBlink,
              closedSince, lastExit, lastExitElapsed, dwellsInStay, stayStart>>

sessVars == <<initializing>>

calVars == <<calInst, calMounts, step, isCapturing, measurements, progressRef, samplesRef,
             settleTimers, onCompleteCalls, heldSample>>

contentVars == <<appContent, displayedAppId, isWindowVisible, visibleFrames, requests,
                 renderError>>

\* The state of the components around the gesture layer.
compVars == <<calVars, contentVars>>

extVars == <<sessVars, compVars>>

vars == <<events, stored, visionVars, appVars, last, result, fx, histVars, extVars>>

\* samplesRef.current = []: the samples as a bag, position |-> count.
NoSamples == [p \in {} |-> 0]

\* appContent null.
NoContent == [text |-> "null", request |-> 0]

NoResult == [isBlinking |-> FALSE, didBlink |-> FALSE, dwellProgress |-> 0,
             didDwell |-> FALSE]

NoFx == [opens |-> <<>>, loads |-> <<>>, closes |-> 0, count |-> -1, hit |-> NoApp,
         accepted |-> FALSE, exit |-> FALSE]

\* ------------------------------------------------------------------ inputs

\* Raw nose positions of a frame: the ones the fallback rule maps onto the
\* mail icon (0.4, 0.5) and onto the system icon (0.6, 0.7).
RawPoints == {[x |-> 540, y |-> 500], [x |-> 460, y |-> 580]}

\* Averaged eye aspect ratios of a frame: closed, and open at the threshold.
Ears == {440, 450}

\* ------------------------------------------------------------------- init

InitWith(profile) ==
  /\ events = 0
  /\ stored = profile
  /\ faceLandmarker = FALSE
  /\ video = FALSE
  /\ calibration = (IF profile.set THEN profile ELSE NoCalibration)
  /\ cursorX = One \div 2
  /\ cursorY = One \div 2
  /\ blinkStartTime = NoTime
  /\ dwellAnchor = [x |-> One \div 2, y |-> One \div 2]
  /\ dwellStartTime = NoTime
  /\ hasTriggeredDwell = FALSE
  /\ status = "LOADING_MODEL"
  /\ statusRef = "LOADING_MODEL"
  /\ rawHead = NoPoint
  /\ activeApp = NoApp
  /\ activeAppRef = NoApp
  /\ firstBlinkHitRef = NoApp
  /\ blinkCount = 0
  /\ doubleBlinkTimer = NoTimer
  /\ timers = {}
  /\ last = "init"
  /\ result = NoResult
  /\ fx = NoFx
  /\ winFirstHit = NoApp
  /\ winOpens = 0
  /\ winMoved = FALSE
  /\ winBlinks = 0
  /\ expired = FALSE
  /\ lastBlink = NoTime
  /\ closedSince = NoTime
  /\ lastExit = NoTime
  /\ lastExitElapsed = 0
  /\ initializing = TRUE
  /\ calInst = 0
  /\ calMounts = 0
  /\ step = 0
  /\ isCapturing = FALSE
  /\ measurements = <<>>
  /\ progressRef = 0
  /\ samplesRef = NoSamples
  /\ settleTimers = {}
  /\ onCompleteCalls = <<>>
  /\ heldSample = FALSE
  /\ appContent = NoContent
  /\ displayedAppId = NoApp
  /\ isWindowVisible = FALSE
  /\ visibleFrames = 0
  /\ requests = <<>>
  /\ renderError = FALSE
  /\ dwellsInStay = 0
  /\ stayStart = NoTime

\* No profile is stored: the first start of the program.
Init == InitWith(NoCalibration)

\* The measurements of earlier calibrations: a user who turned the head to
\* the four targets, one who moved it up and down only, one who kept still.
Measurements ==
  {<<[x |-> 560, y |-> 460], [x |-> 440, y |-> 460],
     [x |-> 440, y |-> 540], [x |-> 560, y |-> 540]>>,
   <<[x |-> 540, y |-> 460], [x |-> 540, y |-> 460],
     [x |-> 540, y |-> 540], [x |-> 540, y |-> 540]>>,
   <<[x |-> 540, y |-> 500], [x |-> 540, y |-> 500],
     [x |-> 540, y |-> 500], [x |-> 540, y |-> 500]>>}

\* What localStorage can hold at start: nothing, or the profile an earlier
\* calibration computed and setCalibration stored.
Profiles == {NoCalibration} \cup {computeCalibration(m) : m \in Measurements}

InitCal == \E profile \in Profiles : InitWith(profile)

\* ---------------------------------------------------------------- actions

\* The effects that copy state into the refs have run.
Flushed == statusRef = status /\ activeAppRef = activeApp

\* No animation frame passes while an effect or a due timer is waiting.
CanAdvance ==
  /\ Flushed
  /\ \A t \in timers : t >= Now + TickMs

\* A stored time seen from the next frame's instant.
Rebase(t) == IF t = NoTime THEN NoTime ELSE Max(t - TickMs, -Old)

\* The same for a time that is compared with the blink durations only.
RebaseBlink(t) == IF t = NoTime THEN NoTime ELSE Max(t - TickMs, -OldBlink)

\* A timer handle seen from the next frame's instant; the handle of a timer
\* that has run names no timer any more.
RebaseHandle(h) == IF h = NoTimer THEN NoTimer ELSE Max(h - TickMs, -TickMs)

RebaseTimers(pending) == {t - TickMs : t \in pending}

\* new VisionService(cb): the constructor's loadCalibration().
LoadCalibration == IF stored.set THEN stored ELSE NoCalibration

\* initVision, initialize() resolving.
InitVisionOk ==
  /\ initializing
  /\ initializing' = FALSE
  /\ UNCHANGED compVars
  /\ calibration' = LoadCalibration
  /\ faceLandmarker' = TRUE
  /\ dwellStartTime' = Now
  /\ status' = "IDLE"
  /\ last' = "initVision"
  /\ fx' = NoFx
  /\ UNCHANGED <<events, stored, video, cursorX, cursorY, blinkStartTime, dwellAnchor,
                 hasTriggeredDwell, statusRef, rawHead, activeApp, activeAppRef,
                 firstBlinkHitRef, blinkCount, doubleBlinkTimer, timers, result, histVars>>

\* initVision, initialize() rejecting.
InitVisionFail ==
  /\ initializing
  /\ initializing' = FALSE
  /\ UNCHANGED compVars
  /\ calibration' = LoadCalibration
  /\ status' = "ERROR"
  /\ last' = "initVisionFail"
  /\ fx' = NoFx
  /\ UNCHANGED <<events, stored, faceLandmarker, video, cursorX, cursorY, blinkStartTime,
                 dwellAnchor, dwellStartTime, hasTriggeredDwell, statusRef, rawHead,
                 activeApp, activeAppRef, firstBlinkHitRef, blinkCount, doubleBlinkTimer,
                 timers, result, histVars>>

\* The two ref-sync effects of App.
FlushEffects ==
  /\ ~Flushed
  /\ statusRef' = status
  /\ activeAppRef' = activeApp
  /\ last' = "effects"
  /\ fx' = NoFx
  /\ UNCHANGED <<events, stored, visionVars, status, rawHead, activeApp, firstBlinkHitRef,
                 blinkCount, doubleBlinkTimer, timers, result, histVars>>
  /\ UNCHANGED extVars

\* The Start OS button: startCamera() resolving, then the calibration check.
StartExperience ==
  /\ status = "IDLE"
  /\ faceLandmarker
  /\ video' = TRUE
  /\ status' = IF stored.set THEN "ACTIVE" ELSE "CALIBRATING"
  /\ last' = "startExperience"
  /\ fx' = NoFx
  /\ UNCHANGED <<events, stored, faceLandmarker, calibration, cursorX, cursorY,
                 blinkStartTime, dwellAnchor, dwellStartTime, hasTriggeredDwell,
                 statusRef, rawHead, activeApp, activeAppRef, firstBlinkHitRef,
                 blinkCount, doubleBlinkTimer, timers, result, histVars>>
  /\ UNCHANGED extVars

\* The Start OS button, getUserMedia rejecting: startCamera() has stored the
\* video element but attached no stream and no loadeddata listener, and
\* startExperience has no handler for the rejection.
StartExperienceFail ==
  /\ status = "IDLE"
  /\ faceLandmarker
  /\ last' = "startExperienceFail"
  /\ fx' = NoFx
  /\ UNCHANGED <<events, stored, visionVars, appVars, result, histVars>>
  /\ UNCHANGED extVars

\* The Recalibrate button.
StartCalibration ==
  /\ status = "ACTIVE"
  /\ events < MaxEvents
  /\ events' = events + 1
  /\ status' = "CALIBRATING"
  /\ last' = "startCalibration"
  /\ fx' = NoFx
  /\ UNCHANGED <<stored, visionVars, statusRef, rawHead, activeApp,
                 activeAppRef, firstBlinkHitRef, blinkCount, doubleBlinkTimer, timers,
                 result, histVars>>
  /\ UNCHANGED extVars

\* The Cancel Calibration button: onCancel.
CancelCalibration ==
  /\ status = "CALIBRATING"
  /\ status' = "ACTIVE"
  /\ last' = "cancelCalibration"
  /\ fx' = NoFx
  /\ UNCHANGED <<events, stored, visionVars, statusRef, rawHead, activeApp,
                 activeAppRef, firstBlinkHitRef, blinkCount, doubleBlinkTimer, timers,
                 result, histVars>>
  /\ UNCHANGED extVars

\* The input events of a frame with landmarks.
InputEvents(nose, ear) ==
  (IF rawHead # NoPoint /\ nose # rawHead THEN 1 ELSE 0)
    + (IF ear < BLINK_THRESHOLD /\ ~result.isBlinking THEN 1 ELSE 0)

\* A variant of the frame without a face that filters the cursor toward the
\* initial target (0.5, 0.5) instead of skipping the frame.
FrameNoFaceDrift ==
  /\ video /\ faceLandmarker
  /\ CanAdvance
  /\ events < MaxEvents
  /\ events' = events + 1
  /\ \E c \in {Smooth(cursorX, cursorY, [x |-> One \div 2, y |-> One \div 2])} :
       /\ cursorX' = c.x
       /\ cursorY' = c.y
  /\ blinkStartTime' = RebaseBlink(blinkStartTime)
  /\ dwellStartTime' = Rebase(dwellStartTime)
  /\ doubleBlinkTimer' = RebaseHandle(doubleBlinkTimer)
  /\ timers' = RebaseTimers(timers)
  /\ lastBlink' = Rebase(lastBlink)
  /\ closedSince' = RebaseBlink(closedSince)
  /\ lastExit' = Rebase(lastExit)
  /\ stayStart' = Rebase(stayStart)
  /\ last' = "noface"
  /\ fx' = NoFx
  /\ UNCHANGED <<stored, faceLandmarker, video, calibration,
                 dwellAnchor, hasTriggeredDwell, status, statusRef, rawHead, activeApp,
                 activeAppRef, firstBlinkHitRef, blinkCount, result, winFirstHit,
                 winOpens, winMoved, winBlinks, expired, lastExitElapsed, dwellsInStay>>
  /\ UNCHANGED extVars

\* predictWebcam on a video frame without a face: nothing but time passes.
FrameNoFace ==
  /\ video /\ faceLandmarker
  /\ CanAdvance
  /\ events < MaxEvents
  /\ events' = events + 1
  /\ blinkStartTime' = RebaseBlink(blinkStartTime)
  /\ dwellStartTime' = Rebase(dwellStartTime)
  /\ doubleBlinkTimer' = RebaseHandle(doubleBlinkTimer)
  /\ timers' = RebaseTimers(timers)
  /\ lastBlink' = Rebase(lastBlink)
  /\ closedSince' = RebaseBlink(closedSince)
  /\ lastExit' = Rebase(lastExit)
  /\ stayStart' = Rebase(stayStart)
  /\ last' = "noface"
  /\ fx' = NoFx
  /\ UNCHANGED <<stored, faceLandmarker, video, calibration, cursorX, cursorY,
                 dwellAnchor, hasTriggeredDwell, status, statusRef, rawHead, activeApp,
                 activeAppRef, firstBlinkHitRef, blinkCount, result, winFirstHit,
                 winOpens, winMoved, winBlinks, expired, lastExitElapsed, dwellsInStay>>
  /\ UNCHANGED extVars

\* predictWebcam on a video frame with landmarks, with the onResult call
\* (processVisionResult) it ends in.  t is performance.now() in the frame.
Frame(nose, ear) ==
  /\ video /\ faceLandmarker
  /\ CanAdvance
  /\ events' = events + InputEvents(nose, ear)
  /\ events' <= MaxEvents
  /\ \E t \in {Now + TickMs} :
     \E c \in {Smooth(cursorX, cursorY, MapToScreen(calibration, nose))} :
     \E b \in {BlinkStep(blinkStartTime, ear, t)} :
     \E d \in {DwellStep(c.x, c.y, dwellAnchor, dwellStartTime, hasTriggeredDwell, t)} :
     \E hit \in {HitTest(c.x, c.y, statusRef, activeAppRef)} :
     \E sel \in {DwellSelect(d.didDwell, statusRef, activeAppRef, hit)} :
       LET accepted == b.didBlink /\ statusRef # "CALIBRATING"
           g        == BlinkGesture(blinkCount, firstBlinkHitRef, doubleBlinkTimer, timers,
                                    hit, t)
           first    == accepted /\ timers = {}
           nOpen    == IF sel # NoApp THEN 1 ELSE 0
       IN  /\ accepted => blinkCount < MaxBlinks
           /\ cursorX' = c.x
           /\ cursorY' = c.y
           /\ blinkStartTime' = RebaseBlink(b.start)
           /\ dwellAnchor' = d.anchor
           /\ dwellStartTime' = Rebase(d.start)
           /\ hasTriggeredDwell' = d.triggered
           /\ result' = [isBlinking |-> b.isBlinking, didBlink |-> b.didBlink,
                         dwellProgress |-> d.progress, didDwell |-> d.didDwell]
           /\ rawHead' = nose
           /\ activeApp' = IF sel # NoApp THEN sel ELSE activeApp
           /\ blinkCount' = IF accepted THEN g.count ELSE blinkCount
           /\ firstBlinkHitRef' = IF accepted THEN g.firstHit ELSE firstBlinkHitRef
           /\ doubleBlinkTimer' = RebaseHandle(IF accepted THEN g.handle ELSE doubleBlinkTimer)
           /\ timers' = RebaseTimers(IF accepted THEN g.pending ELSE timers)
           /\ last' = "frame"
           /\ fx' = [opens |-> IF sel # NoApp THEN <<sel>> ELSE <<>>,
                     loads |-> IF sel # NoApp THEN <<sel>> ELSE <<>>,
                     closes |-> 0, count |-> -1, hit |-> hit, accepted |-> accepted,
                     exit |-> d.exit]
           /\ winFirstHit' = IF first THEN hit
                             ELSE IF timers # {} THEN winFirstHit ELSE NoApp
           /\ winOpens' = IF first THEN nOpen
                          ELSE IF timers # {} THEN winOpens + nOpen ELSE 0
           /\ winMoved' = IF first THEN FALSE
                          ELSE IF timers # {} THEN (winMoved \/ hit # winFirstHit)
                          ELSE FALSE
           /\ winBlinks' = IF first THEN 1
                           ELSE IF accepted THEN winBlinks + 1
                           ELSE IF timers # {} THEN winBlinks ELSE 0
           /\ expired' = expired
           /\ lastExitElapsed' = IF d.exit THEN Min(t - dwellStartTime, Old)
                                 ELSE lastExitElapsed
           /\ lastBlink' = Rebase(IF accepted THEN t
                                  ELSE IF timers # {} THEN lastBlink ELSE NoTime)
           /\ closedSince' = RebaseBlink(IF b.isBlinking
                                    THEN (IF result.isBlinking THEN closedSince ELSE t)
                                    ELSE NoTime)
           /\ lastExit' = Rebase(IF d.exit THEN t ELSE lastExit)
           /\ dwellsInStay' = IF d.exit THEN 0
                              ELSE dwellsInStay + (IF d.didDwell THEN 1 ELSE 0)
           /\ stayStart' = Rebase(IF d.exit \/ stayStart = NoTime THEN t ELSE stayStart)
  /\ UNCHANGED <<stored, faceLandmarker, video, calibration, status, statusRef,
                 activeAppRef>>
  /\ UNCHANGED extVars

\* The setTimeout callback of the blink window.
TimerFire ==
  \E t \in timers :
    /\ t <= Now
    /\ LET dec == ExpiryDecision(blinkCount, activeAppRef, firstBlinkHitRef)
       IN  /\ blinkCount' = CountAfterExpiry(blinkCount)
           /\ timers' = timers \ {t}
           /\ activeApp' = IF dec.close THEN NoApp
                           ELSE IF dec.open # NoApp THEN dec.open ELSE activeApp
           /\ fx' = [opens |-> IF dec.open # NoApp THEN <<dec.open>> ELSE <<>>,
                     loads |-> IF dec.open # NoApp THEN <<dec.open>> ELSE <<>>,
                     closes |-> IF dec.close THEN 1 ELSE 0,
                     count |-> blinkCount, hit |-> NoApp, accepted |-> FALSE,
                     exit |-> FALSE]
    /\ last' = "timer"
    /\ expired' = TRUE
    /\ UNCHANGED <<events, stored, visionVars, status, statusRef, rawHead,
                   activeAppRef, firstBlinkHitRef, doubleBlinkTimer, result, winFirstHit,
                   winOpens, winMoved, winBlinks, lastBlink, closedSince, lastExit,
                   lastExitElapsed, dwellsInStay, stayStart>>
  /\ UNCHANGED extVars

Next ==
  \/ InitVisionOk
  \/ InitVisionFail
  \/ FlushEffects
  \/ StartExperience
  \/ StartExperienceFail
  \/ StartCalibration
  \/ CancelCalibration
  \/ FrameNoFace
  \/ \E nose \in RawPoints, ear \in Ears : Frame(nose, ear)
  \/ TimerFire

Spec == Init /\ [][Next]_vars

\* The start screen left open: initialize() has resolved and the user has not
\* clicked Start yet, so time passes and predictWebcam does not run.
StartScreenWait ==
  /\ faceLandmarker /\ ~video
  /\ dwellStartTime > -Old
  /\ dwellStartTime' = Rebase(dwellStartTime)
  /\ blinkStartTime' = RebaseBlink(blinkStartTime)
  /\ last' = "wait"
  /\ fx' = NoFx
  /\ UNCHANGED <<events, stored, faceLandmarker, video, calibration, cursorX, cursorY,
                 dwellAnchor, hasTriggeredDwell, appVars, result, histVars>>
  /\ UNCHANGED extVars

\* Head positions of a user who looks at the middle of the screen, a little
\* beside it, and away from it.
WaitNoses == {[x |-> One \div 2, y |-> One \div 2], [x |-> 510, y |-> 500],
              [x |-> 460, y |-> 580]}

NextWait ==
  \/ InitVisionOk
  \/ FlushEffects
  \/ StartScreenWait
  \/ StartExperience
  \/ FrameNoFace
  \/ \E nose \in WaitNoses : Frame(nose, BLINK_THRESHOLD)

\* The dwell detector with a user who may take any time to click Start.
SpecWait == InitCal /\ [][NextWait]_vars

\* The same program started with any of the stored profiles.
SpecCal == InitCal /\ [][Next]_vars

\* The initVision effect cleaned up and run again: stop() on the service in
\* use, then a new VisionService whose initialize() is in flight.  stop()
\* cancels the animation frame and ends the camera tracks; the cleanup
\* touches neither the blink count nor the debounce timer of App.
RestartVision ==
  /\ ~initializing
  /\ events < MaxEvents
  /\ events' = events + 1
  /\ initializing' = TRUE
  /\ faceLandmarker' = FALSE
  /\ video' = FALSE
  /\ calibration' = LoadCalibration
  /\ cursorX' = One \div 2
  /\ cursorY' = One \div 2
  /\ blinkStartTime' = NoTime
  /\ dwellAnchor' = [x |-> One \div 2, y |-> One \div 2]
  /\ dwellStartTime' = NoTime
  /\ hasTriggeredDwell' = FALSE
  /\ last' = "restart"
  /\ fx' = NoFx
  /\ UNCHANGED <<stored, appVars, result, histVars, compVars>>

\* The program with its camera session restarted.
NextSession ==
  \/ Next
  \/ RestartVision

SpecSession == Init /\ [][NextSession]_vars

\* Raw nose positions on both sides of the calibrated ranges and inside them.
MapNoses == {[x |-> 400, y |-> 400], [x |-> 540, y |-> 500], [x |-> 600, y |-> 600]}

\* The mapper and the filter on their own: the program started with any of
\* the stored profiles and fed open-eyed frames with these positions.
NextMap ==
  \/ InitVisionOk
  \/ FlushEffects
  \/ StartExperience
  \/ \E nose \in MapNoses : Frame(nose, BLINK_THRESHOLD)

SpecMap == InitCal /\ [][NextMap]_vars

\* ------------------------------------------------- the calibration screen

\* The four targets TL, TR, BR, BL.
POINTS == <<[x |-> One \div 10, y |-> One \div 10],
            [x |-> 9 * (One \div 10), y |-> One \div 10],
            [x |-> 9 * (One \div 10), y |-> 9 * (One \div 10)],
            [x |-> One \div 10, y |-> 9 * (One \div 10)]>>

CAPTURE_DURATION == 1000

\* The frame time the progress increment assumes (ms).
CaptureFrameMs == 16

\* Progress 100, and the increment 100 / (CAPTURE_DURATION / 16) of one sample.
ProgressFull == 100 * One
ProgressIncrement == TruncDiv(ProgressFull * CaptureFrameMs, CAPTURE_DURATION)

\* samplesRef.current.push(p).
AddSample(bag, p) ==
  IF p \in DOMAIN bag THEN [bag EXCEPT ![p] = @ + 1] ELSE bag @@ (p :> 1)

RECURSIVE SampleCount(_, _)
SampleCount(bag, S) ==
  IF S = {} THEN 0
  ELSE LET p == CHOOSE q \in S : TRUE IN bag[p] + SampleCount(bag, S \ {p})

\* samples.length.
SamplesLength(bag) == SampleCount(bag, DOMAIN bag)

RECURSIVE SampleSum(_, _, _)
SampleSum(bag, S, axis) ==
  IF S = {} THEN 0
  ELSE LET p == CHOOSE q \in S : TRUE
       IN  bag[p] * (IF axis = "x" THEN p.x ELSE p.y) + SampleSum(bag, S \ {p}, axis)

\* finishStep: the average point of the samples of a step.
AverageSample(bag) ==
  [x |-> TruncDiv(SampleSum(bag, DOMAIN bag, "x"), SamplesLength(bag)),
   y |-> TruncDiv(SampleSum(bag, DOMAIN bag, "y"), SamplesLength(bag))]

\* What the calibration screen never writes.
calEnv == <<events, faceLandmarker, video, cursorX, cursorY, blinkStartTime, dwellAnchor,
            dwellStartTime, hasTriggeredDwell, statusRef, rawHead, activeApp, activeAppRef,
            firstBlinkHitRef, blinkCount, doubleBlinkTimer, timers, result, histVars,
            sessVars, contentVars>>

\* The state of an instance that is not mounted.
Unmounted ==
  /\ calInst' = 0
  /\ step' = 0
  /\ isCapturing' = FALSE
  /\ measurements' = <<>>
  /\ progressRef' = 0
  /\ samplesRef' = NoSamples
  /\ heldSample' = FALSE

\* A variant of startStep that keeps the samples of the previous step.
startStepNoSampleReset(inst, k, pending) ==
  /\ progressRef' = 0
  /\ isCapturing' = FALSE
  /\ heldSample' = FALSE
  /\ settleTimers' = pending \cup {[inst |-> inst, step |-> k]}
  /\ UNCHANGED samplesRef

\* startStep of the step effect; the timeout it schedules is kept nowhere.
startStep(inst, k, pending) ==
  /\ progressRef' = 0
  /\ samplesRef' = NoSamples
  /\ isCapturing' = FALSE
  /\ heldSample' = FALSE
  /\ settleTimers' = pending \cup {[inst |-> inst, step |-> k]}

\* App rendering CalibrationScreen for status CALIBRATING: the first render
\* of a new instance and its effects.
CalMount ==
  /\ status = "CALIBRATING"
  /\ calInst = 0
  /\ calMounts < MaxCalibrations
  /\ calMounts' = calMounts + 1
  /\ calInst' = calMounts + 1
  /\ step' = 0
  /\ measurements' = <<>>
  /\ startStep(calMounts + 1, 0, settleTimers)
  /\ last' = "calMount"
  /\ fx' = NoFx
  /\ UNCHANGED <<stored, calibration, status, onCompleteCalls, calEnv>>

\* A variant of the completion that leaves the stored record alone.
onCompleteNoStore(inst, points) ==
  /\ onCompleteCalls' = Append(onCompleteCalls, [inst |-> inst, measurements |-> points])
  /\ calibration' = computeCalibration(points)
  /\ stored' = stored
  /\ status' = "ACTIVE"

\* computeCalibration(points) calling onComplete with the profile, and
\* handleCalibrationComplete: setCalibration stores it, status ACTIVE.
onComplete(inst, points) ==
  /\ onCompleteCalls' = Append(onCompleteCalls, [inst |-> inst, measurements |-> points])
  /\ calibration' = computeCalibration(points)
  /\ stored' = computeCalibration(points)
  /\ status' = "ACTIVE"

\* finishStep with the samples of the step, then the render it causes: the
\* next step's startStep, or computeCalibration, onComplete,
\* handleCalibrationComplete and the unmount.
finishStep(samples, pending) ==
  LET newMeasurements == Append(measurements, AverageSample(samples))
  IN  IF step < Len(POINTS) - 1
      THEN /\ measurements' = newMeasurements
           /\ step' = step + 1
           /\ startStep(calInst, step + 1, pending)
           /\ UNCHANGED <<calInst, calMounts, onCompleteCalls, stored, calibration, status>>
      ELSE /\ onComplete(calInst, newMeasurements)
           /\ Unmounted
           /\ settleTimers' = pending
           /\ UNCHANGED calMounts

\* The body of the capture effect once isCapturing and rawHead hold.
Capture(pending, held) ==
  LET pushed == AddSample(samplesRef, rawHead)
      nextProgress == Min(ProgressFull, progressRef + ProgressIncrement)
  IN  IF nextProgress >= ProgressFull
      THEN finishStep(pushed, pending)
      ELSE /\ samplesRef' = pushed
           /\ progressRef' = nextProgress
           /\ isCapturing' = TRUE
           /\ heldSample' = (IF samplesRef = NoSamples THEN held ELSE heldSample)
           /\ settleTimers' = pending
           /\ UNCHANGED <<calInst, calMounts, step, measurements, onCompleteCalls, stored,
                          calibration, status>>

\* The timeout of startStep running.  On a mounted instance it sets
\* isCapturing, and the capture effect of that render samples the rawHead
\* App holds; on an unmounted one the state update is dropped.
CalSettleFire ==
  \E tm \in settleTimers :
    /\ IF tm.inst = calInst
       THEN IF rawHead # NoPoint
            THEN Capture(settleTimers \ {tm}, TRUE)
            ELSE /\ isCapturing' = TRUE
                 /\ settleTimers' = settleTimers \ {tm}
                 /\ UNCHANGED <<calInst, calMounts, step, measurements, progressRef,
                                samplesRef, onCompleteCalls, heldSample, stored,
                                calibration, status>>
       ELSE /\ settleTimers' = settleTimers \ {tm}
            /\ UNCHANGED <<calInst, calMounts, step, isCapturing, measurements, progressRef,
                           samplesRef, onCompleteCalls, heldSample, stored, calibration,
                           status>>
    /\ last' = "calSettle"
    /\ fx' = NoFx
    /\ UNCHANGED calEnv

\* The capture effect of the render that follows a frame's setRawHead.
CaptureEffect ==
  /\ last = "frame"
  /\ calInst # 0
  /\ isCapturing
  /\ rawHead # NoPoint
  /\ Capture(settleTimers, FALSE)
  /\ last' = "capture"
  /\ fx' = NoFx
  /\ UNCHANGED calEnv

\* The Cancel Calibration button and the unmount it causes: the cleanup of
\* the step effect clears timerRef, which is never set.
CalCancel ==
  /\ status = "CALIBRATING"
  /\ calInst # 0
  /\ status' = "ACTIVE"
  /\ Unmounted
  /\ last' = "calCancel"
  /\ fx' = NoFx
  /\ UNCHANGED <<stored, calibration, calMounts, settleTimers, onCompleteCalls, calEnv>>

\* Raw nose positions held during a calibration.
CalNoses == {[x |-> 500, y |-> 500], [x |-> 501, y |-> 501]}

\* A frame during a calibration: the head is held still while the samples of
\* a step are taken and moves, if at all, between two steps.
CalFrame(nose) ==
  /\ rawHead = NoPoint \/ nose = rawHead \/ samplesRef = NoSamples
  /\ Frame(nose, BLINK_THRESHOLD)

\* The calibration screen in the program: the screen's own steps, and of the
\* rest what starts a calibration and what delivers rawHead.
NextCalib ==
  \/ InitVisionOk
  \/ FlushEffects
  \/ StartExperience
  \/ StartCalibration
  \/ CalMount
  \/ CalSettleFire
  \/ CaptureEffect
  \/ CalCancel
  \/ \E nose \in CalNoses : CalFrame(nose)

SpecCalib == Init /\ [][NextCalib]_vars

\* -------------------------------------------------- calibration round trip

\* Affine raw = start + s * (end - start) per axis, one axis mirrored.
RoundTripAffines ==
  {[xs |-> 575, xe |-> 425, ys |-> 450, ye |-> 550],
   [xs |-> 425, xe |-> 575, ys |-> 550, ye |-> 450]}

\* The raw positions of the four targets under an affine.
AffineMeasurements(a) ==
  [i \in 1 .. Len(POINTS) |->
     [x |-> a.xs + TruncDiv(POINTS[i].x * (a.xe - a.xs), One),
      y |-> a.ys + TruncDiv(POINTS[i].y * (a.ye - a.ys), One)]]

\* The calibration screen finishing its last step with these measurements.
CompleteCalibration(points) ==
  /\ status = "CALIBRATING"
  /\ calInst = 0
  /\ onComplete(calInst, points)
  /\ last' = "calComplete"
  /\ fx' = NoFx
  /\ UNCHANGED <<calInst, calMounts, step, isCapturing, measurements, progressRef,
                 samplesRef, settleTimers, heldSample, calEnv>>

\* The measured positions.
RoundNoses ==
  {AffineMeasurements(a)[i] : a \in RoundTripAffines, i \in 1 .. Len(POINTS)}

\* A frame of the calibrated program with the head at a measured position.
RoundFrame(nose) ==
  /\ status = "ACTIVE"
  /\ Frame(nose, BLINK_THRESHOLD)

\* The first calibration completed with the measurements of an affine, then
\* frames with the head at the measured positions.
NextRound ==
  \/ InitVisionOk
  \/ FlushEffects
  \/ StartExperience
  \/ \E a \in RoundTripAffines : CompleteCalibration(AffineMeasurements(a))
  \/ \E nose \in RoundNoses : RoundFrame(nose)

SpecRound == Init /\ [][NextRound]_vars

\* --------------------------------------------------------- the app window

\* What a content request can come to: text that is valid JSON, text that is
\* not, no text, a thrown error.
Outcomes == {"json", "text", "empty", "error"}

\* generateAppContent: response.text, or the fixed text of the catch block.
generateAppContent(outcome) ==
  CASE outcome = "json"  -> "{\"temp\":21}"
    [] outcome = "text"  -> "Sunny"
    [] outcome = "empty" -> ""
    [] outcome = "error" -> "{\"error\":\"Comms Offline\"}"

\* JSON.parse(text) returns for these texts and throws for the others.
JsonParses(text) == text \in {"{\"temp\":21}", "{\"error\":\"Comms Offline\"}"}

\* content || "No data received." of loadAppContent.
ContentOrPlaceholder(text) == IF text = "" THEN "No data received." ELSE text

\* Rendering Window throws: content of mail or weather goes through
\* JSON.parse, that of the other apps through content.replace.
WindowThrows(app, content) ==
  /\ app \in {"mail", "weather"}
  /\ content # NoContent
  /\ ~JsonParses(content.text)

\* What the app window never writes.
contentEnv == <<events, stored, visionVars, status, statusRef, rawHead, firstBlinkHitRef,
                blinkCount, doubleBlinkTimer, timers, result, histVars, sessVars, calVars>>

\* An open decided by the gesture layer: setActiveApp(app) and
\* loadAppContent(app) up to its await, then the effects of the render.
OpenApp(app) ==
  /\ status = "ACTIVE"
  /\ ~renderError
  /\ activeApp = NoApp
  /\ Len(requests) < MaxLoads
  /\ activeApp' = app
  /\ activeAppRef' = app
  /\ appContent' = NoContent
  /\ requests' = Append(requests, [app |-> app, outcome |-> "pending"])
  /\ displayedAppId' = app
  /\ visibleFrames' = visibleFrames + 1
  /\ last' = "openApp"
  /\ fx' = NoFx
  /\ UNCHANGED <<isWindowVisible, renderError, contentEnv>>

\* A close decided by the gesture layer: setActiveApp(null), then the effects.
CloseApp ==
  /\ ~renderError
  /\ activeApp # NoApp
  /\ activeApp' = NoApp
  /\ activeAppRef' = NoApp
  /\ isWindowVisible' = FALSE
  /\ last' = "closeApp"
  /\ fx' = NoFx
  /\ UNCHANGED <<appContent, displayedAppId, visibleFrames, requests, renderError, contentEnv>>

\* The animation frame requested by the display effect.
ShowWindow ==
  /\ ~renderError
  /\ visibleFrames > 0
  /\ visibleFrames' = visibleFrames - 1
  /\ isWindowVisible' = TRUE
  /\ last' = "showWindow"
  /\ fx' = NoFx
  /\ UNCHANGED <<activeApp, activeAppRef, appContent, displayedAppId, requests, renderError,
                 contentEnv>>

\* onTransitionEnd of a window that is not visible: handleWindowExitComplete.
WindowExitComplete ==
  /\ ~renderError
  /\ displayedAppId # NoApp
  /\ ~isWindowVisible
  /\ displayedAppId' = NoApp
  /\ appContent' = NoContent
  /\ last' = "exitComplete"
  /\ fx' = NoFx
  /\ UNCHANGED <<activeApp, activeAppRef, isWindowVisible, visibleFrames, requests,
                 renderError, contentEnv>>

\* The await of loadAppContent resolving for request i: setAppContent, and
\* the render of the window with it.
ContentArrives(i, outcome) ==
  /\ ~renderError
  /\ i \in DOMAIN requests
  /\ requests[i].outcome = "pending"
  /\ requests' = [requests EXCEPT ![i].outcome = outcome]
  /\ appContent' = [text |-> ContentOrPlaceholder(generateAppContent(outcome)),
                    request |-> i]
  /\ renderError' = WindowThrows(displayedAppId, appContent')
  /\ last' = "contentArrives"
  /\ fx' = NoFx
  /\ UNCHANGED <<activeApp, activeAppRef, displayedAppId, isWindowVisible, visibleFrames,
                 contentEnv>>

\* The app window in the calibrated program: opens and closes as the gesture
\* layer decides them, and the content requests completing.
NextContent ==
  \/ InitVisionOk
  \/ FlushEffects
  \/ StartExperience
  \/ \E app \in Apps : OpenApp(app)
  \/ CloseApp
  \/ ShowWindow
  \/ WindowExitComplete
  \/ \E i \in 1 .. MaxLoads, outcome \in Outcomes : ContentArrives(i, outcome)

SpecContent == InitCal /\ [][NextContent]_vars

\* ------------------------------------------------------------- the filter

\* The head at the centre and at two opposite measured positions.
FilterNoses ==
  {[x |-> One \div 2, y |-> One \div 2], [x |-> 560, y |-> 460], [x |-> 440, y |-> 540]}

\* The filter following targets of both mapping rules: frames before and
\* after the first calibration has completed.
NextFilter ==
  \/ InitVisionOk
  \/ FlushEffects
  \/ StartExperience
  \/ \E a \in RoundTripAffines : CompleteCalibration(AffineMeasurements(a))
  \/ \E nose \in FilterNoses : Frame(nose, BLINK_THRESHOLD)

SpecFilter == Init /\ [][NextFilter]_vars

\* ------------------------------------------------------------ the preview

SENSITIVITY_NUM == 5
SENSITIVITY_DEN == 2

\* A variant of the preview without the clamp.
getPreviewPositionNoClamp(raw) ==
  [x |-> 100 * (One - ((One \div 2)
                        + TruncDiv((raw.x - (One \div 2)) * SENSITIVITY_NUM, SENSITIVITY_DEN))),
   y |-> 100 * ((One \div 2)
                  + TruncDiv((raw.y - (One \div 2)) * SENSITIVITY_NUM, SENSITIVITY_DEN))]

\* getPreviewPosition of the calibration screen: amplify, mirror X, clamp,
\* in percent of the screen.
getPreviewPosition(raw) ==
  LET x == One - ((One \div 2)
                    + TruncDiv((raw.x - (One \div 2)) * SENSITIVITY_NUM, SENSITIVITY_DEN))
      y == (One \div 2)
             + TruncDiv((raw.y - (One \div 2)) * SENSITIVITY_NUM, SENSITIVITY_DEN)
  IN  [x |-> 100 * Max(0, Min(One, x)), y |-> 100 * Max(0, Min(One, y))]

\* Raw nose positions inside the amplified range, on its edge and outside it.
PreviewNoses ==
  {[x |-> 200, y |-> 800], [x |-> One \div 2, y |-> One \div 2], [x |-> 620, y |-> 300]}

\* The first start without a stored profile: frames mapped by the fallback
\* rule while the calibration screen previews the same raw positions.
NextPreview ==
  \/ InitVisionOk
  \/ FlushEffects
  \/ StartExperience
  \/ \E nose \in PreviewNoses : Frame(nose, BLINK_THRESHOLD)

SpecPreview == Init /\ [][NextPreview]_vars

\* ------------------------------------------------------------ properties

\* C1 as stated: after exactly one accepted blink whose frame hit an app T
\* (so no app was active), the expiry of the window opens T exactly once
\* with one content load, and nothing was opened between the blink and the
\* expiry.
C1_SingleBlinkOpens_AsStated ==
  (last = "timer" /\ fx.count = 1 /\ winFirstHit # NoApp)
    => /\ fx.opens = <<winFirstHit>>
       /\ fx.loads = <<winFirstHit>>
       /\ winOpens = 0

\* C1: after exactly one accepted blink whose frame hit an app T, and with
\* no dwell selection since that frame began, the expiry of the window opens
\* T exactly once with one content load and closes nothing; and an open that
\* a frame performs is always a dwell selection, never the blink's doing.
C1_SingleBlinkOpens ==
  /\ (last = "timer" /\ fx.count = 1 /\ winFirstHit # NoApp /\ winOpens = 0)
       => /\ fx.opens = <<winFirstHit>>
          /\ fx.loads = <<winFirstHit>>
          /\ fx.closes = 0
          /\ activeApp = winFirstHit
  /\ (last = "frame" /\ fx.opens # <<>>) => result.didDwell

C1_Witness ==
  /\ last = "timer" /\ fx.count = 1 /\ winFirstHit # NoApp /\ winOpens = 0
  /\ fx.opens = <<winFirstHit>>

C3_TripleBlinkIgnored ==
  (last = "timer" /\ fx.count >= 3)
    => /\ fx.opens = <<>>
       /\ fx.loads = <<>>
       /\ fx.closes = 0

C3_Witness ==
  last = "timer" /\ fx.count >= 3 /\ activeAppRef # NoApp /\ activeApp # NoApp

\* C4: while a window is pending, the captured target is the hit test of
\* the frame of its first blink, whatever later frames and later blinks of
\* the window hit; and an app the expiry opens is that target.
C4_CommitOnFirstBlink ==
  /\ timers # {} => firstBlinkHitRef = winFirstHit
  /\ (last = "timer" /\ fx.opens # <<>>) => fx.opens = <<winFirstHit>>

C4_Witness ==
  last = "timer" /\ fx.opens = <<winFirstHit>> /\ winMoved

\* C5: the count is the number of blinks accepted in the window; at most
\* one deadline is pending, and it is due DOUBLE_BLINK_WINDOW after the most
\* recent accepted blink; so the decision is taken that long after the last
\* blink of the window.
C5_DeadlineRestarts ==
  /\ Cardinality(timers) <= 1
  /\ timers # {} => /\ timers = {lastBlink + DOUBLE_BLINK_WINDOW}
                    /\ doubleBlinkTimer = lastBlink + DOUBLE_BLINK_WINDOW
                    /\ blinkCount = winBlinks
  /\ last = "timer" => /\ (Now - lastBlink) = DOUBLE_BLINK_WINDOW
                       /\ fx.count = winBlinks
                       /\ timers = {}

C5_Witness ==
  last = "timer" /\ fx.count = 2 /\ (Now - lastBlink) = DOUBLE_BLINK_WINDOW

\* C6: the count is positive exactly when a deadline is pending; the expiry
\* leaves it at zero, and the first blink accepted after an expiry is
\* counted as one.
C6_CountTracksDeadline ==
  /\ blinkCount > 0 <=> timers # {}
  /\ last = "timer" => blinkCount = 0
  /\ (last = "frame" /\ fx.accepted /\ winBlinks = 1) => blinkCount = 1

C6_Witness ==
  last = "frame" /\ fx.accepted /\ winBlinks = 1 /\ expired /\ blinkCount = 1

\* C7: a processed frame reports didBlink exactly when the eyes were closed
\* in the processed frame before it, are open in this one, and the time from
\* the first closed frame of the run to this frame lies in
\* [BLINK_MIN_DURATION, BLINK_MAX_DURATION].
C7_BlinkEvent ==
  [][last' = "frame" =>
       (result'.didBlink <=>
          /\ result.isBlinking
          /\ ~result'.isBlinking
          /\ (Now + TickMs) - closedSince >= BLINK_MIN_DURATION
          /\ (Now + TickMs) - closedSince <= BLINK_MAX_DURATION)]_vars

C7_Witness ==
  last = "frame" /\ result.didBlink /\ ~result.isBlinking

\* C8: during a stay within the radius of the anchor, didDwell is reported
\* in exactly one frame, the first processed one with DWELL_DURATION elapsed;
\* hasTriggeredDwell is set from that frame on and cleared only by a frame
\* that leaves the radius.
C8_DwellOncePerStay ==
  /\ dwellsInStay <= 1
  /\ hasTriggeredDwell <=> dwellsInStay = 1
  /\ (last = "frame" /\ ~fx.exit)
       => (hasTriggeredDwell <=> (Now - dwellStartTime) >= DWELL_DURATION)
  /\ (last = "frame" /\ result.didDwell) => (~fx.exit /\ hasTriggeredDwell)
  /\ (last = "frame" /\ fx.exit) => ~hasTriggeredDwell

C8_Witness ==
  /\ last = "frame" /\ ~fx.exit /\ ~result.didDwell
  /\ hasTriggeredDwell /\ dwellsInStay = 1
  /\ (Now - dwellStartTime) > DWELL_DURATION

\* C9: a frame that leaves the radius makes the cursor the anchor, restarts
\* the dwell timer at the frame's time and reports neither a dwell nor
\* progress; so a dwell is reported no earlier than DWELL_DURATION after the
\* most recent such frame.
C9_DriftRestartsDwell ==
  /\ (last = "frame" /\ fx.exit)
       => /\ dwellAnchor = [x |-> cursorX, y |-> cursorY]
          /\ dwellStartTime = Now
          /\ ~result.didDwell
          /\ result.dwellProgress = 0
  /\ lastExit # NoTime => dwellStartTime = lastExit
  /\ (last = "frame" /\ result.didDwell /\ lastExit # NoTime)
       => (Now - lastExit) >= DWELL_DURATION

C9_Witness ==
  /\ last = "frame" /\ result.didDwell
  /\ (Now - lastExit) = DWELL_DURATION
  /\ lastExitElapsed >= DWELL_DURATION - 2 * TickMs

\* C10 as stated: whatever the raw positions and the stored profile, both
\* coordinates of the cursor are numbers in [0, 1] after every frame.
C10_CursorInUnitSquare ==
  /\ cursorX \in 0..One
  /\ cursorY \in 0..One

\* C11 as stated: with a stored profile whose X or Y axis has end = start,
\* the target of a frame is the one the uncalibrated rule gives, the same as
\* with no profile stored, and it is a defined value.
C11_ZeroWidthGuarded ==
  (last = "frame" /\ calibration.set
     /\ (calibration.xe = calibration.xs \/ calibration.ye = calibration.ys))
    => MapToScreen(calibration, rawHead) = MapToScreen(NoCalibration, rawHead)

\* The target t of one axis is the clamped quotient (raw - s) / (e - s): in
\* [0, 1], 0 on the start side of the range, 1 on the end side, and within
\* one grid step of the quotient in between.
AxisClamped(raw, s, e, t) ==
  /\ t \in 0..One
  /\ (s < e /\ raw <= s) => t = 0
  /\ (s < e /\ raw >= e) => t = One
  /\ (s > e /\ raw >= s) => t = 0
  /\ (s > e /\ raw <= e) => t = One
  /\ (Min(s, e) < raw /\ raw < Max(s, e))
       => Abs(t * (e - s) - One * (raw - s)) < Abs(e - s)

\* C12: with a profile whose axes have end # start, the target of a frame is
\* clamp((raw - start) / (end - start), 0, 1) on each axis: raw below the
\* range maps to the 0 side, above it to the 1 side, swapped when
\* start > end, and the target is in [0, 1] x [0, 1].
C12_CalibratedMapping ==
  (last = "frame" /\ calibration.set
     /\ calibration.xe # calibration.xs /\ calibration.ye # calibration.ys)
    => /\ AxisClamped(rawHead.x, calibration.xs, calibration.xe,
                      MapToScreen(calibration, rawHead).x)
       /\ AxisClamped(rawHead.y, calibration.ys, calibration.ye,
                      MapToScreen(calibration, rawHead).y)

C12_Witness ==
  /\ last = "frame" /\ calibration.set
  /\ calibration.xe < calibration.xs /\ calibration.ys < calibration.ye
  /\ rawHead.x < calibration.xe /\ rawHead.y < calibration.ys
  /\ MapToScreen(calibration, rawHead) = [x |-> One, y |-> 0]

\* C13: a frame without landmarks leaves the cursor, the blink start time,
\* the dwell anchor, the dwell start time and the dwell flag as they were
\* (the two times seen from the new instant), and the result callback is not
\* called: the last result, the raw head position and the arbitrator's
\* state are as they were.
C13_NoFaceFrame ==
  [][last' = "noface" =>
       /\ cursorX' = cursorX /\ cursorY' = cursorY
       /\ blinkStartTime' = RebaseBlink(blinkStartTime)
       /\ dwellAnchor' = dwellAnchor
       /\ dwellStartTime' = Rebase(dwellStartTime)
       /\ hasTriggeredDwell' = hasTriggeredDwell
       /\ result' = result /\ rawHead' = rawHead /\ fx' = NoFx
       /\ activeApp' = activeApp /\ blinkCount' = blinkCount
       /\ firstBlinkHitRef' = firstBlinkHitRef
       /\ timers' = RebaseTimers(timers)]_vars

C13_Witness ==
  /\ last = "noface"
  /\ cursorX # One \div 2
  /\ blinkStartTime # NoTime
  /\ dwellAnchor # [x |-> One \div 2, y |-> One \div 2]

\* C14 as stated: every open happens in a state where no app is active and
\* every close in a state where an app is active, whatever the order of
\* frames, the expiry of the blink window and the effect that copies the
\* active app into activeAppRef.
C14_NoInterleaving ==
  [][/\ (last' \in {"frame", "timer"} /\ fx'.opens # <<>>) => activeApp = NoApp
     /\ (last' \in {"frame", "timer"} /\ fx'.closes > 0) => activeApp # NoApp]_vars

\* C15: right after the frame pipeline was stopped and a new one set up, the
\* cursor is at the centre, no blink is in progress, the dwell detector is in
\* its initial values, the blink count is 0 and no debounce deadline is
\* pending.
C15_SessionReset ==
  last = "restart" =>
    /\ cursorX = One \div 2 /\ cursorY = One \div 2
    /\ blinkStartTime = NoTime
    /\ dwellAnchor = [x |-> One \div 2, y |-> One \div 2]
    /\ dwellStartTime = NoTime
    /\ ~hasTriggeredDwell
    /\ blinkCount = 0
    /\ timers = {}

\* C19: when loading the model or starting the camera fails the status
\* becomes ERROR, and no step leads from ERROR to another status.
C19_InitFailureTerminal ==
  [][/\ last' \in {"initVisionFail", "startExperienceFail"} => status' = "ERROR"
     /\ status = "ERROR" => status' = "ERROR"]_vars

\* C16: calibration is strictly sequential.  While a screen is mounted its
\* step is 0..3 with one measurement per finished step; a step changes only
\* to the next one, when the capture effect has averaged the samples of the
\* step; no sample exists while the settle timeout of the step is pending;
\* the samples are exactly those pushed by the capture runs of the step; and
\* onComplete is called only from step 3 with four measurements, once per
\* screen.
C16_Sequential ==
  [][/\ calInst' # 0 =>
          /\ step' \in 0 .. Len(POINTS) - 1
          /\ Len(measurements') = step'
          /\ [inst |-> calInst', step |-> step'] \in settleTimers' =>
                (samplesRef' = NoSamples /\ ~isCapturing')
          /\ SamplesLength(samplesRef') * ProgressIncrement = progressRef'
          /\ progressRef' < ProgressFull
     /\ (calInst' = calInst /\ step' # step) =>
          /\ step' = step + 1
          /\ last' = "capture"
          /\ isCapturing
          /\ measurements' = Append(measurements,
                                    AverageSample(AddSample(samplesRef, rawHead)))
          /\ SamplesLength(samplesRef) + 1 = (ProgressFull \div ProgressIncrement) + 1
     /\ (calInst' # calInst /\ calInst' # 0) => (step' = 0 /\ measurements' = <<>>)
     /\ onCompleteCalls' # onCompleteCalls =>
          /\ step = Len(POINTS) - 1
          /\ last' = "capture"
          /\ Len(onCompleteCalls') = Len(onCompleteCalls) + 1
          /\ onCompleteCalls'[Len(onCompleteCalls')].inst = calInst
          /\ Len(onCompleteCalls'[Len(onCompleteCalls')].measurements) = Len(POINTS)
          /\ \A i \in DOMAIN onCompleteCalls : onCompleteCalls[i].inst # calInst
          /\ calInst' = 0]_vars

\* A second calibration has run its four steps to completion.
C16_Witness ==
  /\ last = "capture"
  /\ Len(onCompleteCalls) = 2
  /\ status = "ACTIVE"
  /\ stored.set

\* C17: once a calibration is cancelled none of its settle timeouts is
\* pending, its samples and measurements are gone, onComplete is not called
\* for it, the stored profile is the one from before, and the next screen
\* starts at step 0 without measurements.
C17_CancelStopsTimers ==
  [][/\ last' = "calCancel" =>
          /\ \A tm \in settleTimers' : tm.inst # calInst
          /\ samplesRef' = NoSamples /\ measurements' = <<>>
          /\ onCompleteCalls' = onCompleteCalls
          /\ stored' = stored
     /\ last' = "calSettle" => \A tm \in settleTimers \ settleTimers' : tm.inst = calInst
     /\ onCompleteCalls' # onCompleteCalls => calInst # 0
     /\ last' = "calMount" =>
          (step' = 0 /\ measurements' = <<>> /\ samplesRef' = NoSamples)]_vars

\* C18: after a calibration completed with the four measurements of an
\* affine, the profile in use and the stored one are that affine's start and
\* end on both axes, and a frame with the head at the i-th measurement maps
\* to the i-th target; one axis of each affine is mirrored.
C18_RoundTrip ==
  \A a \in RoundTripAffines :
    (/\ onCompleteCalls # <<>>
     /\ onCompleteCalls[Len(onCompleteCalls)].measurements = AffineMeasurements(a)) =>
      /\ stored = Calibration(a.xs, a.xe, a.ys, a.ye)
      /\ calibration = stored
      /\ \A i \in 1 .. Len(POINTS) :
           (last = "frame" /\ rawHead = AffineMeasurements(a)[i]) =>
             MapToScreen(calibration, rawHead) = POINTS[i]

\* A frame at the top-left measurement of the affine with the mirrored X axis.
C18_Witness ==
  /\ last = "frame"
  /\ onCompleteCalls # <<>>
  /\ stored = Calibration(575, 425, 450, 550)
  /\ rawHead = [x |-> 560, y |-> 460]
  /\ MapToScreen(calibration, rawHead) = [x |-> One \div 10, y |-> One \div 10]

\* C20: whatever a content request comes to, a missing text or a thrown error
\* is replaced by a fixed text, the render of the window with the content
\* raises no error, and the gesture state is as before.
C20_ContentNeverFatal ==
  [][last' = "contentArrives" =>
       /\ \A i \in DOMAIN requests :
            /\ (requests[i].outcome = "pending" /\ requests'[i].outcome = "empty")
                 => appContent'.text = "No data received."
            /\ (requests[i].outcome = "pending" /\ requests'[i].outcome = "error")
                 => appContent'.text = "{\"error\":\"Comms Offline\"}"
       /\ ~renderError'
       /\ UNCHANGED <<visionVars, activeApp, activeAppRef, firstBlinkHitRef, blinkCount,
                      doubleBlinkTimer, timers>>]_vars

\* C21: in every processed frame, with d the distance from the cursor to the
\* target of the frame, the cursor moves on both axes by the difference times
\* the gain, which is 0.02 for d < 0.002 and min(0.1 + 5 d, 0.5) otherwise;
\* the new cursor lies between the old one and the target on each axis, and
\* its distance to the target is not larger than before.
C21_FilterGain ==
  [][last' = "frame" =>
       LET target == MapToScreen(calibration', rawHead')
           d2 == (target.x - cursorX) * (target.x - cursorX)
                   + (target.y - cursorY) * (target.y - cursorY)
           gain == IF d2 < 2 * 2 THEN 20 ELSE Min(100 + 5 * Isqrt(d2), 500)
       IN  /\ cursorX' = cursorX + TruncDiv((target.x - cursorX) * gain, One)
           /\ cursorY' = cursorY + TruncDiv((target.y - cursorY) * gain, One)
           /\ Min(cursorX, target.x) <= cursorX' /\ cursorX' <= Max(cursorX, target.x)
           /\ Min(cursorY, target.y) <= cursorY' /\ cursorY' <= Max(cursorY, target.y)
           /\ Dist2(target.x, target.y, cursorX', cursorY')
                <= Dist2(target.x, target.y, cursorX, cursorY)]_vars

\* A frame has moved the cursor part of the way to the top-left target.
C21_Witness ==
  /\ last = "frame"
  /\ calibration.set
  /\ MapToScreen(calibration, rawHead) = POINTS[1]
  /\ cursorX > POINTS[1].x /\ cursorX < One \div 2
  /\ cursorY > POINTS[1].y /\ cursorY < One \div 2

\* C22: without a profile the target of a frame is
\* x = clamp(1 - (0.5 + (rawX - 0.5) * 2.5), 0, 1) and
\* y = clamp(0.5 + (rawY - 0.5) * 2.5, 0, 1), and the preview of the
\* calibration screen shows the same position, in percent.
C22_UncalibratedMapping ==
  (last = "frame" /\ ~calibration.set) =>
    LET ax == (One \div 2) + TruncDiv((rawHead.x - (One \div 2)) * 5, 2)
        ay == (One \div 2) + TruncDiv((rawHead.y - (One \div 2)) * 5, 2)
        target == MapToScreen(calibration, rawHead)
    IN  /\ target.x = Max(0, Min(One, One - ax))
        /\ target.y = Max(0, Min(One, ay))
        /\ getPreviewPosition(rawHead) = [x |-> 100 * target.x, y |-> 100 * target.y]

\* A frame of the calibration screen with the head outside the amplified
\* range on both axes.
C22_Witness ==
  /\ last = "frame"
  /\ status = "CALIBRATING"
  /\ ~calibration.set
  /\ rawHead = [x |-> 200, y |-> 800]
  /\ MapToScreen(calibration, rawHead) = [x |-> One, y |-> One]
  /\ getPreviewPosition(rawHead) = [x |-> 100 * One, y |-> 100 * One]

\* C23: the profile of the mapper is the stored record, or absent when
\* nothing is stored; Start OS without a stored record leads to CALIBRATING
\* and with one to ACTIVE; while nothing is stored a frame moves the cursor
\* toward the target of the uncalibrated rule; the stored record changes only
\* when a calibration completes, and then it and the mapper's profile are the
\* profile of that calibration's measurements and the status is ACTIVE.
C23_OneProfile ==
  [][/\ calibration' = (IF stored'.set THEN stored' ELSE NoCalibration)
     /\ last' = "startExperience" =>
          status' = (IF stored.set THEN "ACTIVE" ELSE "CALIBRATING")
     /\ (last' = "frame" /\ ~stored.set) =>
          [x |-> cursorX', y |-> cursorY'] = Smooth(cursorX, cursorY, FallbackTarget(rawHead'))
     /\ stored' # stored => onCompleteCalls' # onCompleteCalls
     /\ onCompleteCalls' # onCompleteCalls =>
          /\ stored' = computeCalibration(onCompleteCalls'[Len(onCompleteCalls')].measurements)
          /\ stored'.set
          /\ calibration' = stored'
          /\ status' = "ACTIVE"]_vars

\* A second calibration has completed and replaced the profile of the first.
C23_Witness ==
  /\ last = "capture"
  /\ Len(onCompleteCalls) = 2
  /\ stored = computeCalibration(onCompleteCalls[2].measurements)
  /\ stored # computeCalibration(onCompleteCalls[1].measurements)
  /\ calibration = stored

\* C24: the blink start time changes from none only in a processed frame
\* with closed eyes, which sets it to the instant of that frame; a later
\* closed frame keeps it; after a processed frame with open eyes it is none,
\* and it names the same instant after every step that is not a processed
\* frame; no frame reports didBlink together with isBlinking.
C24_BlinkState ==
  [][/\ (blinkStartTime = NoTime /\ blinkStartTime' # NoTime) =>
          (last' = "frame" /\ result'.isBlinking /\ blinkStartTime' = Now)
     /\ (last' = "frame" /\ result'.isBlinking /\ blinkStartTime = NoTime) =>
          blinkStartTime' = Now
     /\ (last' = "frame" /\ result'.isBlinking /\ blinkStartTime # NoTime) =>
          blinkStartTime' = RebaseBlink(blinkStartTime)
     /\ (last' = "frame" /\ ~result'.isBlinking) => blinkStartTime' = NoTime
     /\ last' = "noface" => (blinkStartTime' = RebaseBlink(blinkStartTime) /\ result' = result)
     /\ last' \notin {"frame", "noface"} =>
          (blinkStartTime' = blinkStartTime /\ result' = result)
     /\ ~result'.isBlinking => blinkStartTime' = NoTime
     /\ ~(result'.didBlink /\ result'.isBlinking)]_vars

\* The third frame of one closure: the start time is still that of the first.
C24_Witness ==
  /\ last = "frame"
  /\ result.isBlinking
  /\ blinkStartTime = Now - 2 * TickMs

C26_ContentOfDisplayedApp ==
  (displayedAppId # NoApp /\ appContent # NoContent) =>
    /\ appContent.request \in DOMAIN requests
    /\ requests[appContent.request].app = displayedAppId
    /\ \A i \in DOMAIN requests :
         requests[i].app = displayedAppId => i <= appContent.request

\* C27: a dwell event is backed by an observed stay: didDwell is true in a
\* frame only if a processed frame at least DWELL_DURATION before it already
\* had the cursor within DWELL_RADIUS of the same anchor; so the first
\* processed frame after initialize() emits no dwell event, and time without
\* processed frames before it does not count.  stayStart is the earliest
\* processed frame since which the cursor has stayed at the current anchor.
C27_DwellBackedByStay ==
  (last = "frame" /\ result.didDwell) =>
    /\ stayStart # NoTime
    /\ (Now - stayStart) >= DWELL_DURATION

====
